---- MODULE Spec2Model ----
(***************************************************************************)
(* ARSA Technology Edge-TTS API (src/main.py): the request-to-artifact     *)
(* lifecycle.  The output directory, the clock, the /tts and /tts/batch    *)
(* handlers (split at their only await, communicate.save), the download    *)
(* handler and the deferred eviction sweep.  Spec runs /tts with the sweep  *)
(* and the clock, SpecDownload adds GET /audio, SpecBatch runs /tts/batch, *)
(* SpecUtil calls get_voice_name and estimate_duration on their own.       *)
(*                                                                         *)
(* Strings the code inspects by content (file names, identifiers) are      *)
(* sequences of one-character strings.  A request text is a sequence of    *)
(* runs [c, n]: n whitespace characters (c = "s") or n word characters     *)
(* (c = "w"), adjacent runs alternating, which is all that strip(), len(), *)
(* split() and slicing read of it.                                         *)
(***************************************************************************)
EXTENDS Integers, Sequences, FiniteSets, TLC

VARIABLES
    now,        \* the wall clock, seconds since 2024-01-01 00:00:00 local time
    dir,        \* OUTPUT_DIR: file name -> [kind, ctime, size, writing]
    uuidCount,  \* how many uuid4() values have been drawn
    faults,     \* how many environment faults (engine, file system) have happened
    tts,        \* the /tts handler task
    ttsResp,    \* the last /tts response
    batch,      \* the /tts/batch handler task
    batchResp,  \* the last /tts/batch response
    dl,         \* the last GET /audio/{audio_id} response
    sending,    \* the FileResponse download_audio returned, until it is sent
    requests,   \* how many /tts and /tts/batch requests have arrived
    sweeps,     \* background tasks scheduled and not yet run
    lastSweep,  \* what the last cleanup_old_files run did
    issued,     \* history: [id, file] of every /tts success response
    evicted,    \* history: names of the files cleanup_old_files has removed
    util        \* arguments and results of the utility functions called alone

vars == <<now, dir, uuidCount, faults, tts, ttsResp, batch, batchResp, dl,
          requests, sweeps, lastSweep, issued, evicted, util, sending>>

----------------------------------------------------------------------------
\* Configuration and literals of main.py

MAX_TEXT_LENGTH == 5000
CLEANUP_INTERVAL == 3600
BATCH_LIMIT == 10
PREVIEW_LENGTH == 50

\* Bounds of the model
MaxTts == 2         \* /tts requests in one run of Spec
MaxDownloadTts == 1 \* /tts requests in one run of SpecDownload
MaxFaults == 1      \* environment faults (engine, file system) in one run

----------------------------------------------------------------------------
\* Character strings

PREFIX_TTS == <<"a","r","s","a","_","t","t","s","_">>
PREFIX_BATCH == <<"a","r","s","a","_","b","a","t","c","h","_">>
EXT_WAV == <<".","w","a","v">>
EXT_MP3 == <<".","m","p","3">>

DigitChars == <<"0","1","2","3","4","5","6","7","8","9">>
HexChars == <<"0","1","2","3","4","5","6","7","8","9","a","b","c","d","e","f">>

RECURSIVE Pow10(_)
Pow10(k) == IF k = 0 THEN 1 ELSE 10 * Pow10(k - 1)

\* "%0wd" % n
ZeroPad(n, w) == [i \in 1..w |-> DigitChars[((n \div Pow10(w - i)) % 10) + 1]]

\* str(i) for a batch index
IntStr(n) == IF n < 10 THEN ZeroPad(n, 1) ELSE ZeroPad(n, 2)

\* s in t (Python's substring test)
IsSubstring(s, t) ==
    \E i \in 0..(Len(t) - Len(s)) : SubSeq(t, i + 1, i + Len(s)) = s

\* t.endswith(suf)
EndsWith(t, suf) ==
    /\ Len(suf) <= Len(t)
    /\ SubSeq(t, Len(t) - Len(suf) + 1, Len(t)) = suf

\* filename.endswith(('.wav', '.mp3'))
HasAudioExt(f) == EndsWith(f, EXT_WAV) \/ EndsWith(f, EXT_MP3)

\* datetime.now().strftime("%Y%m%d_%H%M%S"), for an instant of January 2024
Strftime(t) ==
    ZeroPad(2024, 4) \o ZeroPad(1, 2) \o ZeroPad(1 + (t \div 86400), 2)
        \o <<"_">>
        \o ZeroPad((t % 86400) \div 3600, 2) \o ZeroPad((t % 3600) \div 60, 2)
        \o ZeroPad(t % 60, 2)

\* str(uuid.uuid4()): the n-th value drawn.  uuid4 values are taken to be
\* distinct; they are hexadecimal groups joined by "-".
UuidStr(n) == <<HexChars[(n \div 16) + 1], "-", HexChars[(n % 16) + 1]>>

\* str.lower() on the values requests carry
Lower(s) ==
    CASE s = "WAV" -> "wav"
      [] s = "MP3" -> "mp3"
      [] s = "English" -> "english"
      [] s = "Indonesian" -> "indonesian"
      [] OTHER -> s

----------------------------------------------------------------------------
\* Request texts

Run(c, n) == [c |-> c, n |-> n]

RECURSIVE TextLen(_)
\* len(text)
TextLen(t) == IF t = <<>> THEN 0 ELSE Head(t).n + TextLen(Tail(t))

\* not text.strip()
IsBlank(t) == \A i \in DOMAIN t : t[i].c = "s"

\* len(text.split())
WordCount(t) ==
    Cardinality({i \in DOMAIN t : t[i].c = "w" /\ (i = 1 \/ t[i - 1].c # "w")})

RECURSIVE Slice(_, _)
\* text[:k]
Slice(t, k) ==
    IF t = <<>> \/ k <= 0 THEN <<>>
    ELSE IF Head(t).n >= k THEN <<Run(Head(t).c, k)>>
    ELSE <<Head(t)>> \o Slice(Tail(t), k - Head(t).n)

\* req.text[:50] + "..." if len(req.text) > 50 else req.text
TextPreview(t) ==
    IF TextLen(t) > PREVIEW_LENGTH
    THEN Slice(t, PREVIEW_LENGTH) \o <<Run(".", 3)>>
    ELSE t

----------------------------------------------------------------------------
\* Requests (TTSRequest; rate, pitch and volume are handed to the engine
\* unread and are left out)

TTSRequest(text, voice, language, output_format) ==
    [text |-> text, voice |-> voice, language |-> language,
     output_format |-> output_format]

\* estimate_duration counting characters for words
estimate_duration_ByLength(text, language) ==
    LET word_count == TextLen(text)
        words_per_minute == IF Lower(language) = "indonesian" THEN 120 ELSE 150
    IN  (2 * word_count * 6000 + words_per_minute) \div (2 * words_per_minute)

\* round(word_count / words_per_minute * 60, 2), in hundredths of a second
estimate_duration(text, language) ==
    LET word_count == WordCount(text)
        words_per_minute == IF Lower(language) = "indonesian" THEN 120 ELSE 150
    IN  (2 * word_count * 6000 + words_per_minute) \div (2 * words_per_minute)

INDONESIAN_VOICES ==
    [female |-> "id-ID-GadisNeural", male |-> "id-ID-ArdiNeural"]

ENGLISH_VOICES ==
    [female_us |-> "en-US-AriaNeural", male_us |-> "en-US-GuyNeural"]

\* VoiceGet with voices[voice], which raises KeyError for an unknown voice
VoiceGet_NoDefault(voices, voice, default) ==
    IF voice \in DOMAIN voices THEN voices[voice] ELSE "KeyError"

\* voices.get(voice, voices[default])["name"]
VoiceGet(voices, voice, default) ==
    IF voice \in DOMAIN voices THEN voices[voice] ELSE voices[default]

get_voice_name(voice, language) ==
    IF Lower(language) = "english"
    THEN VoiceGet(ENGLISH_VOICES, voice, "female_us")
    ELSE VoiceGet(INDONESIAN_VOICES, voice, "female")

\* "wav" if request.output_format.lower() == "wav" else "mp3", with its dot
FileExtension(output_format) ==
    IF Lower(output_format) = "wav" THEN EXT_WAV ELSE EXT_MP3

\* f"arsa_tts_{timestamp}_{audio_id}.{file_extension}"
TtsFilename(t, audio_id, output_format) ==
    PREFIX_TTS \o Strftime(t) \o <<"_">> \o audio_id
        \o FileExtension(output_format)

\* f"arsa_batch_{timestamp}_{i}_{audio_id}.{file_extension}"
BatchFilename(t, i, audio_id, output_format) ==
    PREFIX_BATCH \o Strftime(t) \o <<"_">> \o IntStr(i) \o <<"_">> \o audio_id
        \o FileExtension(output_format)

\* TtsValidate with `if not request.text` for its first check
TtsValidate_NoStrip(text) ==
    IF text = <<>> THEN "Text cannot be empty"
    ELSE IF TextLen(text) > MAX_TEXT_LENGTH THEN "Text too long"
    ELSE "ok"

\* The two checks that open generate_speech: the detail of the HTTP 400
\* they raise, or "ok"
TtsValidate(text) ==
    IF IsBlank(text) THEN "Text cannot be empty"
    ELSE IF TextLen(text) > MAX_TEXT_LENGTH THEN "Text too long"
    ELSE "ok"

----------------------------------------------------------------------------
\* The output directory

FileEntry(ctime, size, writing) ==
    [kind |-> "file", ctime |-> ctime, size |-> size, writing |-> writing]

\* os.path.exists(path)
Exists(d, f) == f \in DOMAIN d

\* os.path.isfile(path)
IsFile(d, f) == f \in DOMAIN d /\ d[f].kind = "file"

\* What was in OUTPUT_DIR before the service started: a text file and a
\* sub-directory
README == <<"r","e","a","d","m","e",".","t","x","t">>
SUBDIR == <<"o","l","d",".","w","a","v">>

InitialDir ==
    (README :> FileEntry(0, 1, FALSE))
        @@ (SUBDIR :> [kind |-> "dir", ctime |-> 0, size |-> 0, writing |-> FALSE])

\* The instants the clock visits
Instants == {0, CLEANUP_INTERVAL, CLEANUP_INTERVAL + 1}

----------------------------------------------------------------------------
\* Inputs

TEXT_EMPTY == <<>>
TEXT_SPACES == <<Run("s", 3)>>
TEXT_HALO == <<Run("w", 4), Run("s", 1), Run("w", 5)>>
TEXT_MAX == <<Run("w", MAX_TEXT_LENGTH)>>
TEXT_OVER == <<Run("w", MAX_TEXT_LENGTH), Run("s", 1)>>
TEXT_LONG == <<Run("w", PREVIEW_LENGTH), Run("s", 1), Run("w", 2)>>

TtsRequests ==
    {TTSRequest(t, "female", "indonesian", "wav") :
        t \in {TEXT_EMPTY, TEXT_SPACES, TEXT_HALO, TEXT_MAX, TEXT_OVER}}
      \cup {TTSRequest(TEXT_HALO, "male_us", "English", "MP3")}

\* Batches: none, mixed items, exactly the limit, one more than the limit
REQ_HALO == TTSRequest(TEXT_HALO, "female", "indonesian", "wav")
REQ_LONG == TTSRequest(TEXT_LONG, "male_us", "English", "MP3")
REQ_EMPTY == TTSRequest(TEXT_EMPTY, "female", "indonesian", "wav")
REQ_SPACES == TTSRequest(TEXT_SPACES, "female", "indonesian", "wav")
REQ_OVER == TTSRequest(TEXT_OVER, "female", "indonesian", "wav")

Alternating(n) == [k \in 1..n |-> IF k % 2 = 1 THEN REQ_HALO ELSE REQ_LONG]

BatchInputs ==
    {<<>>, <<REQ_SPACES>>, <<REQ_LONG, REQ_EMPTY, REQ_OVER>>,
     Alternating(BATCH_LIMIT), Alternating(BATCH_LIMIT + 1)}

\* The requests of the runs that also download
DownloadRequests ==
    {TTSRequest(TEXT_HALO, "female", "indonesian", "wav"),
     TTSRequest(TEXT_HALO, "male_us", "English", "MP3")}

\* The identifiers GET /audio is asked for: the first uuid drawn, one that no
\* /tts request of the run draws, and strings that are no identifier (the
\* file name prefix, a piece of an identifier).
ProbeIds ==
    {UuidStr(0), UuidStr(MaxDownloadTts),
     <<"a","r","s","a","_","t","t","s">>, <<"0","-">>}

----------------------------------------------------------------------------
\* State after start-up

Idle == [pc |-> "idle"]
NoResponse == [status |-> 0]
NoFileResponse == [pc |-> "none"]
NoSweep == [n |-> 0, at |-> 0, ok |-> TRUE, removed |-> {}, kept |-> {}]

\* No call of a utility function on its own
NoCall == [voice |-> "", language |-> "", texts |-> <<>>, voice_name |-> "",
           durations |-> <<>>]

\* The service, started
Started ==
    /\ now = 0
    /\ dir = InitialDir
    /\ uuidCount = 0
    /\ faults = 0
    /\ tts = Idle
    /\ ttsResp = NoResponse
    /\ batch = Idle
    /\ batchResp = NoResponse
    /\ dl = NoResponse
    /\ sending = NoFileResponse
    /\ requests = [tts |-> 0, batch |-> 0]
    /\ sweeps = 0
    /\ lastSweep = NoSweep
    /\ issued = {}
    /\ evicted = {}

Init == Started /\ util = NoCall

----------------------------------------------------------------------------
\* The clock

Tick(t) ==
    /\ t > now
    /\ now' = t
    /\ UNCHANGED <<util, sending, dir, uuidCount, faults, tts, ttsResp, batch, batchResp, dl,
                   requests, sweeps, lastSweep, issued, evicted>>

----------------------------------------------------------------------------
\* The external synthesis capability, edge_tts.Communicate(...).save(path).
\* It opens the file and streams audio into it over several awaits, so the
\* caller is suspended in between.  It may also fail to open the file, leave it
\* empty, or raise.

\* The directory once save(path) has stopped writing, sz bytes in the file
\* (0, or 1 for any size that is not 0).  os.path.getctime is the time of the
\* file's last change, which the last write sets.  A file unlinked meanwhile
\* stays unlinked.
SaveClose(d, f, opened, sz, t) ==
    IF opened /\ Exists(d, f)
    THEN [d EXCEPT ![f] = FileEntry(t, sz, FALSE)]
    ELSE d

\* The directory once save(path) has started
SaveOpen(d, f, opens, t) ==
    IF opens THEN (f :> FileEntry(t, 0, TRUE)) @@ d ELSE d

\* str(e) of the exceptions save(path) raises; NO_EXCEPTION when it returns
EngineErrors == {"No audio was received", "Cannot connect to host"}
NO_EXCEPTION == ""

\* How many faults an outcome of save counts for
SaveFaults(opened, ret, sz) ==
    (IF ret = "raise" THEN 1 ELSE 0) + (IF opened /\ sz = 0 THEN 1 ELSE 0)

----------------------------------------------------------------------------
\* POST /tts: generate_speech, up to its await

\* Beside a response are kept, for the record: the request, the number of
\* times the engine was invoked for it, the files the engine opened, how the
\* engine call ended (ret) and what it raised (exc).
TtsRejected(req, detail) ==
    [status |-> 400, detail |-> detail, success |-> FALSE, req |-> req,
     calls |-> 0, wrote |-> {}, ret |-> "none", exc |-> NO_EXCEPTION]

TtsFailed(task, detail, ret, exc) ==
    [status |-> 500, detail |-> detail, success |-> FALSE, req |-> task.req,
     calls |-> task.calls, wrote |-> IF task.opened THEN {task.filename} ELSE {},
     ret |-> ret, exc |-> exc]

\* SpeechErrorDetail with the fixed text download_audio answers its errors with
SpeechErrorDetail_NoCause(e) == <<"Failed to generate speech">>

\* f"Failed to generate speech: {str(e)}"
SpeechErrorDetail(e) == <<"Failed to generate speech: ", e>>

TtsSucceeded(task, file_size) ==
    [status |-> 200, detail |-> "Audio generated successfully", success |-> TRUE,
     req |-> task.req, calls |-> task.calls, ret |-> "return", exc |-> NO_EXCEPTION,
     wrote |-> IF task.opened THEN {task.filename} ELSE {},
     audio_id |-> task.audio_id,
     duration_estimate |-> estimate_duration(task.req.text, task.req.language),
     voice_used |-> task.voice_name,
     file_size |-> file_size]

generate_speech_begin(req, opens) ==
    /\ tts.pc = "idle"
    /\ requests' = [requests EXCEPT !.tts = @ + 1]
    /\ IF TtsValidate(req.text) # "ok"
       THEN /\ opens
            /\ ttsResp' = TtsRejected(req, TtsValidate(req.text))
            /\ UNCHANGED <<dir, uuidCount, faults, tts>>
       ELSE LET audio_id == UuidStr(uuidCount)
                filename == TtsFilename(now, audio_id, req.output_format)
            IN  /\ opens \/ faults < MaxFaults
                /\ faults' = IF opens THEN faults ELSE faults + 1
                /\ uuidCount' = uuidCount + 1
                /\ dir' = SaveOpen(dir, filename, opens, now)
                /\ tts' = [pc |-> "saving", req |-> req, audio_id |-> audio_id,
                           filename |-> filename,
                           voice_name |-> get_voice_name(req.voice, req.language),
                           opened |-> opens, calls |-> 1]
                /\ UNCHANGED ttsResp
    /\ UNCHANGED <<util, sending, now, batch, batchResp, dl, sweeps, lastSweep, issued, evicted>>

\* generate_speech from the return of communicate.save (ret = "return") or
\* the exception e it raised (ret = "raise") to the response
generate_speech_resume(ret, sz, e) ==
    /\ tts.pc = "saving"
    /\ tts.opened \/ sz = 0
    /\ IF ret = "raise" THEN e \in EngineErrors ELSE e = NO_EXCEPTION
    /\ faults + SaveFaults(tts.opened, ret, sz) <= MaxFaults
    /\ faults' = faults + SaveFaults(tts.opened, ret, sz)
    /\ dir' = SaveClose(dir, tts.filename, tts.opened, sz, now)
    /\ tts' = Idle
    /\ IF ret = "raise"
       THEN /\ ttsResp' = TtsFailed(tts, SpeechErrorDetail(e), ret, e)
            /\ UNCHANGED <<sweeps, issued>>
       ELSE IF ~Exists(dir', tts.filename)
       THEN /\ ttsResp' = TtsFailed(tts, "Failed to generate audio file", ret, e)
            /\ UNCHANGED <<sweeps, issued>>
       ELSE /\ ttsResp' = TtsSucceeded(tts, dir'[tts.filename].size)
            /\ sweeps' = sweeps + 1
            /\ issued' = issued \cup {[id |-> tts.audio_id, file |-> tts.filename]}
    /\ UNCHANGED <<util, sending, now, uuidCount, batch, batchResp, dl, requests, lastSweep,
                   evicted>>

----------------------------------------------------------------------------
\* GET /audio/{audio_id}: download_audio

\* DownloadMatches looking for '.wav' alone
DownloadMatches_WavOnly(d, audio_id) ==
    {f \in DOMAIN d : IsSubstring(audio_id, f) /\ EndsWith(f, EXT_WAV) /\ Exists(d, f)}

\* The names the scan of os.listdir(OUTPUT_DIR) stops at
DownloadMatches(d, audio_id) ==
    {f \in DOMAIN d : IsSubstring(audio_id, f) /\ HasAudioExt(f) /\ Exists(d, f)}

\* "audio/wav" if filename.endswith('.wav') else "audio/mpeg"
MediaType(f) == IF EndsWith(f, EXT_WAV) THEN "audio/wav" ELSE "audio/mpeg"

\* f"arsa_tts_{audio_id}.{'wav' if filename.endswith('.wav') else 'mp3'}"
DownloadName(audio_id, f) ==
    PREFIX_TTS \o audio_id \o (IF EndsWith(f, EXT_WAV) THEN EXT_WAV ELSE EXT_MP3)

\* FileResponse(file_path, media_type=..., filename=...): the response object
\* the handler returns.  It reads nothing of the file yet.
FileResponse(audio_id, f) == [pc |-> "sending", id |-> audio_id, path |-> f]

\* What a FileResponse sends once the handler has returned it: it looks the
\* path up then, serves a regular file and fails on anything else, a path
\* that is no longer there included.  That failure is raised outside
\* download_audio, past its except clauses, and is answered HTTP 500.
Served(d, audio_id, f) ==
    [status |-> IF IsFile(d, f) THEN 200 ELSE 500, id |-> audio_id, file |-> f,
     media_type |-> MediaType(f), filename |-> DownloadName(audio_id, f)]

NotFound(audio_id) ==
    [status |-> 404, id |-> audio_id, detail |-> "Audio file not found"]

\* os.listdir gives the names in no particular order: the first match is any
\* match.  The handler has no await: it runs in one step, to the 404 or to
\* the return of a FileResponse.
download_audio(audio_id) ==
    /\ sending = NoFileResponse
    /\ IF DownloadMatches(dir, audio_id) = {}
       THEN /\ dl' = NotFound(audio_id)
            /\ UNCHANGED sending
       ELSE /\ \E f \in DownloadMatches(dir, audio_id) :
                  sending' = FileResponse(audio_id, f)
            /\ UNCHANGED dl
    /\ UNCHANGED <<util, now, dir, uuidCount, faults, tts, ttsResp, batch, batchResp,
                   requests, sweeps, lastSweep, issued, evicted>>

\* The framework sends the response the handler returned, in a later step of
\* the event loop
FileResponse_call ==
    /\ sending # NoFileResponse
    /\ dl' = Served(dir, sending.id, sending.path)
    /\ sending' = NoFileResponse
    /\ UNCHANGED <<util, now, dir, uuidCount, faults, tts, ttsResp, batch,
                   batchResp, requests, sweeps, lastSweep, issued, evicted>>

----------------------------------------------------------------------------
\* The deferred eviction sweep: cleanup_old_files, run as a background task
\* after the response that scheduled it.  It has no await and runs in one
\* step.

\* ShouldEvict with file_age >= CLEANUP_INTERVAL
ShouldEvict_AtInterval(file_age) == file_age >= CLEANUP_INTERVAL

\* file_age > CLEANUP_INTERVAL
ShouldEvict(file_age) == file_age > CLEANUP_INTERVAL

\* SweepScans without the test of the extension
SweepScans_AnyFile(d) == {f \in DOMAIN d : IsFile(d, f)}

\* The names the scan considers: regular files with an audio extension
SweepScans(d) == {f \in DOMAIN d : IsFile(d, f) /\ HasAudioExt(f)}

\* The names the scan removes when nothing fails
SweepTargets(d, current_time) ==
    {f \in SweepScans(d) : ShouldEvict(current_time - d[f].ctime)}

Aged(d, names, current_time) ==
    {[name |-> f, age |-> current_time - d[f].ctime] : f \in names}

Remove(d, names) == [f \in DOMAIN d \ names |-> d[f]]

\* ExceptLogged with the exception left to propagate to a client: the last
\* response becomes a server error
ExceptRaised(ok) ==
    /\ ttsResp' = IF ok THEN ttsResp ELSE [ttsResp EXCEPT !.status = 500]
    /\ UNCHANGED <<batchResp, dl>>

\* except Exception as e: logger.error(...): what the scan raised ends in the
\* log, and the task ends as one that raised nothing
ExceptLogged(ok) == UNCHANGED <<ttsResp, batchResp, dl>>

\* The state after a scan that removed gone; ok: no os.remove raised
SweepDone(gone, ok) ==
    /\ ExceptLogged(ok)
    /\ sweeps' = sweeps - 1
    /\ dir' = Remove(dir, gone)
    /\ evicted' = evicted \cup gone
    /\ lastSweep' = [n |-> lastSweep.n + 1, at |-> now, ok |-> ok,
                     removed |-> Aged(dir, gone, now),
                     kept |-> Aged(dir, SweepScans(dir) \ gone, now)]

\* Either every os.remove succeeds, or the os.remove of failAt raises: the
\* exception leaves the loop, so that the files removed before it are any
\* part of the targets, those the listing put first.
cleanup_old_files ==
    /\ sweeps > 0
    /\ \/ /\ SweepDone(SweepTargets(dir, now), TRUE)
          /\ UNCHANGED faults
       \/ /\ faults < MaxFaults
          /\ faults' = faults + 1
          /\ \E failAt \in SweepTargets(dir, now) :
                \E gone \in SUBSET (SweepTargets(dir, now) \ {failAt}) :
                   SweepDone(gone, FALSE)
    /\ UNCHANGED <<util, sending, now, uuidCount, tts, batch, requests, issued>>

----------------------------------------------------------------------------
\* POST /tts/batch: generate_batch_speech.  Items are numbered from 0, as
\* enumerate numbers them; requests[i + 1] is item i.

\* BatchTooLarge with len(requests) >= 10
BatchTooLarge_AtLimit(n) == n >= BATCH_LIMIT

\* len(requests) > 10
BatchTooLarge(n) == n > BATCH_LIMIT

BatchSuccessEntry(task, file_size) ==
    [success |-> TRUE, audio_id |-> task.audio_id,
     duration_estimate |->
        estimate_duration(task.requests[task.i + 1].text,
                          task.requests[task.i + 1].language),
     voice_used |-> task.voice_name,
     file_size |-> file_size,
     text_preview |-> TextPreview(task.requests[task.i + 1].text)]

BatchFailureEntry(task, error) ==
    [success |-> FALSE, error |-> error,
     text_preview |-> TextPreview(task.requests[task.i + 1].text)]

\* ResultsAppend with results.insert(0, entry)
ResultsPrepend(results, entry) == <<entry>> \o results

\* results.append(entry)
ResultsAppend(results, entry) == Append(results, entry)

\* CountSuccessful counting the entries with a file_size that is not 0
CountSuccessful_BySize(results) ==
    Cardinality({k \in DOMAIN results :
                    results[k].success /\ results[k].file_size # 0})

\* len([r for r in results if r.get("success")])
CountSuccessful(results) == Cardinality({k \in DOMAIN results : results[k].success})

\* len([r for r in results if not r.get("success")])
CountFailed(results) == Cardinality({k \in DOMAIN results : ~results[k].success})

\* BatchContinues with the try around the loop: an exception ends the loop
BatchContinues_UntilFailure(task, ret) ==
    ret # "raise" /\ task.i + 1 < Len(task.requests)

\* Whether the loop has a further item after item task.i ended with ret: the
\* try/except sits inside the loop, so that it goes on whatever ret is
BatchContinues(task, ret) == task.i + 1 < Len(task.requests)

\* BatchSchedules with background_tasks.add_task inside the loop
BatchSchedules_PerItem(more) == 1

\* How many times a step of the handler calls
\* background_tasks.add_task(cleanup_old_files): the call follows the loop, so
\* none while the loop has more items and one when it has ended
BatchSchedules(more) == IF more THEN 0 ELSE 1

\* The response of a batch that was not rejected.  requests, invoked (the
\* items the engine was invoked for) and rets (how each invocation ended) are
\* kept beside it for the record.
BatchResponse(reqs, results, invoked, rets) ==
    [status |-> 200, batch_success |-> TRUE, total_requests |-> Len(reqs),
     successful |-> CountSuccessful(results), failed |-> CountFailed(results),
     results |-> results,
     requests |-> reqs, invoked |-> invoked, rets |-> rets, scheduled |-> 1]

BatchRejected(reqs) ==
    [status |-> 400, detail |-> "Maximum 10 requests per batch",
     requests |-> reqs, invoked |-> {}, rets |-> <<>>, scheduled |-> 0]

\* The body of the loop for item i up to its await
BatchItemTask(reqs, i, results, invoked, rets, opens, t, n) ==
    [pc |-> "saving", requests |-> reqs, i |-> i, results |-> results,
     audio_id |-> UuidStr(n),
     filename |-> BatchFilename(t, i, UuidStr(n), reqs[i + 1].output_format),
     voice_name |-> get_voice_name(reqs[i + 1].voice, reqs[i + 1].language),
     opened |-> opens, invoked |-> invoked \cup {i}, rets |-> rets]

generate_batch_speech_begin(reqs, opens) ==
    /\ batch.pc = "idle"
    /\ requests' = [requests EXCEPT !.batch = @ + 1]
    /\ IF BatchTooLarge(Len(reqs))
       THEN /\ opens
            /\ batchResp' = BatchRejected(reqs)
            /\ UNCHANGED <<dir, uuidCount, faults, batch, sweeps>>
       ELSE IF reqs = <<>>
       THEN /\ opens
            /\ batchResp' = BatchResponse(reqs, <<>>, {}, <<>>)
            /\ sweeps' = sweeps + BatchSchedules(FALSE)
            /\ UNCHANGED <<dir, uuidCount, faults, batch>>
       ELSE /\ opens \/ faults < MaxFaults
            /\ faults' = IF opens THEN faults ELSE faults + 1
            /\ uuidCount' = uuidCount + 1
            /\ batch' = BatchItemTask(reqs, 0, <<>>, {}, <<>>, opens, now, uuidCount)
            /\ dir' = SaveOpen(dir, batch'.filename, opens, now)
            /\ UNCHANGED <<batchResp, sweeps>>
    /\ UNCHANGED <<util, sending, now, tts, ttsResp, dl, lastSweep, issued, evicted>>

\* From the return of communicate.save for item i (or the exception it
\* raised) to the await of item i + 1, or to the response after the last item
generate_batch_speech_resume(ret, sz, opens) ==
    /\ batch.pc = "saving"
    /\ batch.opened \/ sz = 0
    /\ LET closed == SaveClose(dir, batch.filename, batch.opened, sz, now)
           file_size == IF Exists(closed, batch.filename)
                        THEN closed[batch.filename].size ELSE 0
           results == ResultsAppend(batch.results,
                                    IF ret = "raise"
                                    THEN BatchFailureEntry(batch, "engine error")
                                    ELSE BatchSuccessEntry(batch, file_size))
           rets == Append(batch.rets, ret)
           more == BatchContinues(batch, ret)
           k == SaveFaults(batch.opened, ret, sz) + (IF more /\ ~opens THEN 1 ELSE 0)
       IN  /\ faults + k <= MaxFaults
           /\ faults' = faults + k
           /\ IF more
              THEN /\ uuidCount' = uuidCount + 1
                   /\ batch' = BatchItemTask(batch.requests, batch.i + 1, results,
                                             batch.invoked, rets, opens, now, uuidCount)
                   /\ dir' = SaveOpen(closed, batch'.filename, opens, now)
                   /\ sweeps' = sweeps + BatchSchedules(more)
                   /\ UNCHANGED batchResp
              ELSE /\ opens
                   /\ dir' = closed
                   /\ batch' = Idle
                   /\ batchResp' = BatchResponse(batch.requests, results,
                                                 batch.invoked, rets)
                   /\ sweeps' = sweeps + BatchSchedules(more)
                   /\ UNCHANGED uuidCount
    /\ UNCHANGED <<util, sending, now, tts, ttsResp, dl, requests, lastSweep, issued, evicted>>

----------------------------------------------------------------------------
\* The service with single-item synthesis: /tts, the sweep, the clock

Next ==
    \/ /\ requests.tts < MaxTts
       /\ \E req \in TtsRequests, opens \in BOOLEAN : generate_speech_begin(req, opens)
    \/ \E ret \in {"return", "raise"}, sz \in {0, 1},
          e \in EngineErrors \cup {NO_EXCEPTION} : generate_speech_resume(ret, sz, e)
    \/ cleanup_old_files
    \/ \E t \in Instants : Tick(t)

Spec == Init /\ [][Next]_vars

\* The same with downloads, for requests that pass validation and an engine
\* that raises one exception
NextDownload ==
    \/ /\ requests.tts < MaxDownloadTts
       /\ \E req \in DownloadRequests, opens \in BOOLEAN :
             generate_speech_begin(req, opens)
    \/ \E ret \in {"return", "raise"}, sz \in {0, 1},
          e \in {"No audio was received", NO_EXCEPTION} :
             generate_speech_resume(ret, sz, e)
    \/ \E audio_id \in ProbeIds : download_audio(audio_id)
    \/ FileResponse_call
    \/ cleanup_old_files
    \/ \E t \in Instants : Tick(t)

SpecDownload == Init /\ [][NextDownload]_vars

\* One /tts/batch call from its arrival to its response and to the sweep it
\* scheduled, with the clock.  A run holds a single call: what a call leaves
\* behind for the next is files in the directory, which the runs of Spec have.
NextBatch ==
    \/ /\ requests.batch = 0
       /\ \E reqs \in BatchInputs, opens \in BOOLEAN :
             generate_batch_speech_begin(reqs, opens)
    \/ \E ret \in {"return", "raise"}, sz \in {0, 1}, opens \in BOOLEAN :
          generate_batch_speech_resume(ret, sz, opens)
    \/ cleanup_old_files
    \/ \E t \in Instants : Tick(t)

SpecBatch == Init /\ [][NextBatch]_vars

----------------------------------------------------------------------------
\* The utility functions called on their own

\* The languages a request is documented to carry ("indonesian or english");
\* both functions compare language.lower()
SupportedLanguages == {"indonesian", "english"}

VoiceIds == {"female", "male", "female_us", "male_us", "robot"}
Languages == {"indonesian", "Indonesian", "english", "English", "french"}

TEXT_WORD == <<Run("w", 9)>>
TEXT_THREE == <<Run("w", 1), Run("s", 1), Run("w", 1), Run("s", 2), Run("w", 1)>>

\* Texts of 0, 0, 1, 2 and 3 words
UtilTexts == {TEXT_EMPTY, TEXT_SPACES, TEXT_WORD, TEXT_HALO, TEXT_THREE}

\* A voice to resolve and two texts to estimate, all for one language
UtilCalls ==
    {[voice |-> v, language |-> l, texts |-> <<t1, t2>>, voice_name |-> "",
      durations |-> <<>>] :
        v \in VoiceIds, l \in Languages, t1 \in UtilTexts, t2 \in UtilTexts}

InitUtil == Started /\ util \in UtilCalls

service == <<now, dir, uuidCount, faults, tts, ttsResp, batch, batchResp, dl,
             requests, sweeps, lastSweep, issued, evicted, sending>>

get_voice_name_call ==
    /\ util.voice_name = ""
    /\ util' = [util EXCEPT
                   !.voice_name = get_voice_name(util.voice, util.language)]
    /\ UNCHANGED service

\* estimate_duration of the next text
estimate_duration_call ==
    /\ Len(util.durations) < Len(util.texts)
    /\ util' = [util EXCEPT
                   !.durations =
                      Append(@, estimate_duration(util.texts[Len(@) + 1],
                                                  util.language))]
    /\ UNCHANGED service

NextUtil ==
    \/ get_voice_name_call
    \/ estimate_duration_call

SpecUtil == InitUtil /\ [][NextUtil]_vars

----------------------------------------------------------------------------
\* Properties

\* What the specification calls an invalid text: empty, whitespace-only, or
\* longer than the configured maximum
InvalidText(text) == IsBlank(text) \/ TextLen(text) > MAX_TEXT_LENGTH

\* The identifiers /tts and /tts/batch have produced so far
Produced == {UuidStr(n) : n \in 0..(uuidCount - 1)}

\* The file names a /tts request that drew audio_id can have created
FilesOf(audio_id) ==
    {TtsFilename(t, audio_id, f) : t \in Instants, f \in {"wav", "mp3"}}

\* C1: an identifier a /tts success response carried is found by GET
\* /audio, which serves that request's file, in every state in which no sweep
\* has removed the file; and whatever file GET /audio finds for an identifier
\* was created by the request that drew it, so that an identifier not drawn
\* yet finds nothing.
C1_RetrievableUntilEvicted ==
    /\ \A a \in issued :
          a.file \notin evicted =>
             /\ DownloadMatches(dir, a.id) = {a.file}
             /\ Served(dir, a.id, a.file).status = 200
    /\ \A n \in 0..MaxDownloadTts :
          /\ DownloadMatches(dir, UuidStr(n)) \subseteq FilesOf(UuidStr(n))
          /\ n >= uuidCount => DownloadMatches(dir, UuidStr(n)) = {}

\* A sweep has run and kept the file of an identifier a client holds, and
\* GET /audio has served it
C1_Witness ==
    \E a \in issued :
       /\ lastSweep.n > 0
       /\ a.file \in DOMAIN dir
       /\ dl.status = 200 /\ dl.id = a.id /\ dl.file = a.file

\* C2: a /tts request whose text is empty, whitespace-only or longer than
\* MAX_TEXT_LENGTH is answered HTTP 400 in the step it arrives in, which
\* invokes no engine (the handler is not left awaiting, the response counts no
\* call), draws no identifier and leaves the directory as it was.
C2_InvalidTextRejected ==
    [][requests'.tts # requests.tts =>
          LET req == IF tts'.pc = "saving" THEN tts'.req ELSE ttsResp'.req
          IN  InvalidText(req.text) =>
                 /\ tts'.pc = "idle"
                 /\ ttsResp'.status = 400
                 /\ ttsResp'.calls = 0
                 /\ ttsResp'.wrote = {}
                 /\ dir' = dir
                 /\ uuidCount' = uuidCount]_vars

\* A text of MAX_TEXT_LENGTH + 1 characters has been refused
C2_Witness ==
    /\ ttsResp.status = 400
    /\ TextLen(ttsResp.req.text) = MAX_TEXT_LENGTH + 1
    /\ ~IsBlank(ttsResp.req.text)
    /\ ttsResp.calls = 0

\* C3: in a batch response, every item whose text is invalid is a failed
\* item for which the engine was not invoked.
C3_BatchItemsValidated ==
    batchResp.status = 200 =>
       \A k \in DOMAIN batchResp.requests :
          InvalidText(batchResp.requests[k].text) =>
             /\ ~batchResp.results[k].success
             /\ (k - 1) \notin batchResp.invoked

\* C4: a batch of at most 10 items is answered with batch_success true, every
\* item was attempted, and an item is reported failed exactly when its own
\* engine call raised.
C4_FailuresIsolated ==
    (batchResp.status # 0 /\ Len(batchResp.requests) <= BATCH_LIMIT) =>
       /\ batchResp.status = 200
       /\ batchResp.batch_success
       /\ batchResp.invoked = 0..(Len(batchResp.requests) - 1)
       /\ DOMAIN batchResp.rets = DOMAIN batchResp.requests
       /\ DOMAIN batchResp.results = DOMAIN batchResp.requests
       /\ \A k \in DOMAIN batchResp.requests :
             ~batchResp.results[k].success <=> batchResp.rets[k] = "raise"

\* The engine failed for the second of three items only: two succeeded, one
\* failed
C4_Witness ==
    /\ batchResp.status = 200
    /\ batchResp.rets = <<"return", "raise", "return">>
    /\ batchResp.successful = 2 /\ batchResp.failed = 1
    /\ ~batchResp.results[2].success
    /\ batchResp.results[1].success /\ batchResp.results[3].success

\* C5: in a batch response successful + failed = total_requests, which is the
\* number of items submitted and the length of results.
C5_CountsAddUp ==
    batchResp.status = 200 =>
       /\ batchResp.successful + batchResp.failed = batchResp.total_requests
       /\ batchResp.total_requests = Len(batchResp.requests)
       /\ Len(batchResp.results) = batchResp.total_requests

\* A batch of several items, some succeeding and some failing, was answered
C5_Witness ==
    /\ batchResp.status = 200
    /\ batchResp.total_requests >= 3
    /\ batchResp.successful > 0 /\ batchResp.failed > 0

\* C6: in a batch response results[k] is the outcome of the k-th request: it
\* previews that request's text, it succeeded exactly when that request's
\* engine call returned, and a success names the voice and the duration
\* estimate of that request.
C6_ResultsInInputOrder ==
    batchResp.status = 200 =>
       /\ Len(batchResp.results) = Len(batchResp.requests)
       /\ \A k \in DOMAIN batchResp.results :
             LET r == batchResp.results[k]
                 q == batchResp.requests[k]
             IN  /\ r.text_preview = TextPreview(q.text)
                 /\ r.success <=> batchResp.rets[k] = "return"
                 /\ r.success =>
                       /\ r.voice_used = get_voice_name(q.voice, q.language)
                       /\ r.duration_estimate = estimate_duration(q.text, q.language)

\* A batch of the full ten items, alternating two requests, one of them failed
C6_Witness ==
    /\ batchResp.status = 200
    /\ Len(batchResp.requests) = BATCH_LIMIT
    /\ \E k \in 2..BATCH_LIMIT : ~batchResp.results[k].success
    /\ batchResp.results[1].success
    /\ batchResp.results[1].text_preview # batchResp.results[2].text_preview

\* C7: a batch of more than 10 items is answered HTTP 400 with nothing done
\* (no engine call, no identifier drawn, no file written, no sweep scheduled
\* or run), and a batch of 10 items or fewer is not refused.  A run holds one
\* batch call, so that nothing done is the state the service started in.
C7_BatchLimit ==
    /\ batchResp.status # 0 =>
          IF Len(batchResp.requests) > BATCH_LIMIT
          THEN /\ batchResp.status = 400
               /\ batchResp.invoked = {}
               /\ batch.pc = "idle"
               /\ uuidCount = 0
               /\ dir = InitialDir
               /\ sweeps = 0 /\ lastSweep = NoSweep
          ELSE batchResp.status = 200
    /\ batch.pc = "saving" => Len(batch.requests) <= BATCH_LIMIT

\* A batch of 11 items has been refused
C7_Witness ==
    /\ batchResp.status = 400
    /\ Len(batchResp.requests) = BATCH_LIMIT + 1

\* A batch of exactly 10 items has been processed to its response
C7_TenAccepted ==
    /\ batchResp.status = 200
    /\ batchResp.total_requests = BATCH_LIMIT

\* C8: a sweep in which no deletion fails removes every regular audio file
\* whose age is greater than CLEANUP_INTERVAL and leaves every one whose age is
\* at most CLEANUP_INTERVAL in place, unchanged.
C8_EvictionThreshold ==
    [][(lastSweep'.n # lastSweep.n /\ lastSweep'.ok) =>
          \A f \in DOMAIN dir :
             (IsFile(dir, f) /\ HasAudioExt(f)) =>
                IF now - dir[f].ctime > CLEANUP_INTERVAL
                THEN f \notin DOMAIN dir'
                ELSE f \in DOMAIN dir' /\ dir'[f] = dir[f]]_vars

\* One sweep removed a file one second past the interval and kept a younger one
C8_Witness ==
    /\ lastSweep.ok
    /\ \E r \in lastSweep.removed : r.age = CLEANUP_INTERVAL + 1
    /\ \E k \in lastSweep.kept : k.age <= CLEANUP_INTERVAL

\* A sweep kept a file whose age was exactly the interval
C8_KeptAtBoundary ==
    /\ lastSweep.ok
    /\ \E k \in lastSweep.kept : k.age = CLEANUP_INTERVAL

\* C9: no success outcome carries file_size 0: an engine call that returns
\* leaving an empty or missing file ends in a failure response of /tts and in
\* a failed item of a batch.
C9_NoEmptySuccess ==
    /\ ttsResp.status = 200 => ttsResp.file_size > 0
    /\ batchResp.status = 200 =>
          \A k \in DOMAIN batchResp.results :
             batchResp.results[k].success => batchResp.results[k].file_size > 0

\* C10: GET /audio answers 404 for every identifier that /tts and /tts/batch
\* never produced.
C10_UnknownIdNotFound ==
    (dl.status # 0 /\ dl.id \notin Produced) => dl.status = 404

\* C11: a /tts request whose engine call raised is answered HTTP 500 with the
\* detail "Failed to generate speech: " followed by the description of the
\* exception raised; it is no success, and the engine was invoked once for it.
C11_EngineErrorSurfaced ==
    (ttsResp.status # 0 /\ ttsResp.ret = "raise") =>
       /\ ttsResp.status = 500
       /\ ~ttsResp.success
       /\ ttsResp.exc \in EngineErrors
       /\ ttsResp.detail = <<"Failed to generate speech: ", ttsResp.exc>>
       /\ ttsResp.calls = 1

\* The engine opened the file of a request and then raised: HTTP 500 naming
\* the cause
C11_Witness ==
    /\ ttsResp.status = 500
    /\ ttsResp.ret = "raise"
    /\ ttsResp.exc = "No audio was received"
    /\ ttsResp.wrote # {}

\* C12: get_voice_name answers a registered voice name for every voice id and
\* language: for English (in any case) the voice of an English id and
\* en-US-AriaNeural (female_us) for every other id; for Indonesian and for
\* every language outside the supported set the voice of an Indonesian id
\* and id-ID-GadisNeural (female) for every other id.
C12_VoiceResolutionTotal ==
    util.voice_name # "" =>
       IF Lower(util.language) = "english"
       THEN util.voice_name =
               CASE util.voice = "female_us" -> "en-US-AriaNeural"
                 [] util.voice = "male_us" -> "en-US-GuyNeural"
                 [] OTHER -> "en-US-AriaNeural"
       ELSE util.voice_name =
               CASE util.voice = "female" -> "id-ID-GadisNeural"
                 [] util.voice = "male" -> "id-ID-ArdiNeural"
                 [] OTHER -> "id-ID-GadisNeural"

\* An unregistered voice id of an unsupported language was resolved to the
\* Indonesian default
C12_Witness ==
    /\ util.voice = "robot"
    /\ Lower(util.language) \notin SupportedLanguages
    /\ util.voice_name = "id-ID-GadisNeural"

\* An English voice id asked for Indonesian was resolved to the Indonesian
\* default, an Indonesian one asked for English to the English default
C12_CrossLanguage ==
    \/ util.voice = "male_us" /\ util.language = "indonesian"
          /\ util.voice_name = "id-ID-GadisNeural"
    \/ util.voice = "male" /\ util.language = "English"
          /\ util.voice_name = "en-US-AriaNeural"

\* C13: of two texts estimated for one language, the one with no more words
\* has no greater estimate; the estimate of the empty text is 0.
C13_EstimateMonotonic ==
    /\ \A k \in DOMAIN util.durations :
          util.texts[k] = TEXT_EMPTY => util.durations[k] = 0
    /\ Len(util.durations) = 2 =>
          (WordCount(util.texts[1]) <= WordCount(util.texts[2])
              => util.durations[1] <= util.durations[2])

\* A text of one long word was estimated shorter than a text of three short
\* words
C13_Witness ==
    /\ Len(util.durations) = 2
    /\ util.texts = <<TEXT_WORD, TEXT_THREE>>
    /\ util.durations[1] < util.durations[2]

\* The empty text was estimated 0 for a language that is not Indonesian
C13_EmptyIsZero ==
    /\ Len(util.durations) = 2
    /\ util.texts[2] = TEXT_EMPTY
    /\ util.durations[2] = 0
    /\ util.language = "english"

\* C19: for a language outside the supported set, the estimate of a text is
\* the estimate of that text for "indonesian" (120 words per minute), the
\* language get_voice_name resolves the voice for.
C19_UnsupportedUsesPrimary ==
    Lower(util.language) \notin SupportedLanguages =>
       /\ \A k \in DOMAIN util.durations :
             util.durations[k] = estimate_duration(util.texts[k], "indonesian")
       /\ util.voice_name # "" =>
             util.voice_name = get_voice_name(util.voice, "indonesian")

\* C14: the file a /tts request or a batch item is being written to is in the
\* directory for as long as the write is in progress: no sweep removes it
\* before communicate.save has ended.
C14_NoEvictionMidWrite ==
    /\ (tts.pc = "saving" /\ tts.opened) => Exists(dir, tts.filename)
    /\ (batch.pc = "saving" /\ batch.opened) => Exists(dir, batch.filename)

\* C15: a sweep in which an os.remove failed has still removed every other
\* audio file older than CLEANUP_INTERVAL: of the files it examined, at most
\* the one whose removal failed is left over age.
C15_SweepSurvivesFailure ==
    Cardinality({k \in lastSweep.kept : k.age > CLEANUP_INTERVAL})
        <= (IF lastSweep.ok THEN 0 ELSE 1)

\* C16: every answer of GET /audio is the file (200) or not-found (404); a
\* download whose file a sweep removed while it was being handled is
\* answered not-found.
C16_ServedOrNotFound ==
    dl.status # 0 => dl.status \in {200, 404}

\* C17: a sweep, failed or not, leaves every response as it was, and it runs
\* after the response that scheduled it: there have been fewer sweeps than
\* success responses when one starts.
C17_SweepErrorsSwallowed ==
    [][lastSweep'.n # lastSweep.n =>
          /\ ttsResp' = ttsResp
          /\ batchResp' = batchResp
          /\ dl' = dl
          /\ lastSweep.n < Cardinality(issued)
                              + (IF batchResp.status = 200 THEN 1 ELSE 0)]_vars

\* The sweep a /tts success scheduled failed at an os.remove, and the success
\* response stands
C17_Witness ==
    /\ lastSweep.n > 0
    /\ ~lastSweep.ok
    /\ ttsResp.status = 200
    /\ ttsResp.success

\* C18: while the items of a batch are being processed no sweep is scheduled
\* and none has run; once the batch is answered exactly one sweep has been
\* scheduled, whatever the number of items and of failures; a refused batch
\* schedules none.  A run holds one batch call.
C18_OneSweepPerBatch ==
    /\ batch.pc = "saving" => (sweeps = 0 /\ lastSweep.n = 0)
    /\ batchResp.status = 200 => sweeps + lastSweep.n = 1
    /\ batchResp.status = 400 => sweeps + lastSweep.n = 0

\* A batch of ten items, one of them failed, was answered and its one sweep
\* has run
C18_Witness ==
    /\ batchResp.status = 200
    /\ batchResp.total_requests = BATCH_LIMIT
    /\ batchResp.failed > 0
    /\ sweeps = 0 /\ lastSweep.n = 1

\* C20: a sweep, failed or not, creates no entry and changes none that it
\* leaves; every entry it removes is a regular file whose name ends in .wav
\* or .mp3, so that other files and directories stay whatever their age.
C20_SweepFrame ==
    [][lastSweep'.n # lastSweep.n =>
          /\ DOMAIN dir' \subseteq DOMAIN dir
          /\ \A f \in DOMAIN dir' : dir'[f] = dir[f]
          /\ \A f \in DOMAIN dir \ DOMAIN dir' :
                dir[f].kind = "file" /\ HasAudioExt(f)]_vars

\* A sweep removed an audio file and left a text file and a directory named
\* old.wav that were both older than CLEANUP_INTERVAL
C20_Witness ==
    /\ lastSweep.removed # {}
    /\ README \in DOMAIN dir /\ lastSweep.at - dir[README].ctime > CLEANUP_INTERVAL
    /\ SUBDIR \in DOMAIN dir /\ lastSweep.at - dir[SUBDIR].ctime > CLEANUP_INTERVAL

====
